---------------------------- MODULE Spec2Model ----------------------------
(***************************************************************************)
(* DailyFlow (src/app/page.tsx): six task slots kept in React state and    *)
(* mirrored to localStorage, one active task, and a 25-minute countdown    *)
(* driven by a setInterval owned by an effect.                             *)
(*                                                                         *)
(* JavaScript values are tagged records; a string is a sequence of         *)
(* one-character strings, so that JSON.stringify and JSON.parse are real   *)
(* conversions between values and text.                                    *)
(***************************************************************************)
EXTENDS Integers, Sequences, FiniteSets, TLC

VARIABLES
  storage,      \* localStorage entry under STORAGE_KEY: [present, text]
  tasks,        \* useState tasks: sequence of JavaScript values
  hydrated,     \* useState hydrated
  activeId,     \* useState activeId: a JavaScript value (null when none)
  secondsLeft,  \* useState secondsLeft
  running,      \* useState running
  intervalRef,  \* intervalRef.current: 0 for null, else an interval id
  intervals,    \* the host's live setInterval ids
  crashed,      \* an exception escaped a render or an effect: tree unmounted
  lastOp,       \* history: the handler that ran last and its argument
  streak        \* history: ticks since a start that directly followed a
                \* selection, with nothing else in between; -1 otherwise

vars == <<storage, tasks, hydrated, activeId, secondsLeft, running,
          intervalRef, intervals, crashed, lastOp, streak>>

-----------------------------------------------------------------------------
(* JavaScript values *)

Undef == [t |-> "undefined"]
Null == [t |-> "null"]
Bool(b) == [t |-> "boolean", b |-> b]
Num(n) == [t |-> "number", n |-> n]
Str(s) == [t |-> "string", s |-> s]
Arr(a) == [t |-> "array", a |-> a]
Obj(f) == [t |-> "object", f |-> f]

Fld(k, v) == [k |-> k, val |-> v]

\* property names of interface Task
K_id == <<"i", "d">>
K_name == <<"n", "a", "m", "e">>
K_isRGA == <<"i", "s", "R", "G", "A">>

RECURSIVE FieldIndex(_, _, _)
\* position of own property k in a field list, 0 when absent
FieldIndex(f, k, i) ==
  IF i > Len(f) THEN 0
  ELSE IF f[i].k = k THEN i
  ELSE FieldIndex(f, k, i + 1)

\* obj[k] = v on a field list: an existing key keeps its position
SetField(f, k, v) ==
  LET i == FieldIndex(f, k, 1)
  IN IF i = 0 THEN Append(f, Fld(k, v))
     ELSE [f EXCEPT ![i] = Fld(k, v)]

\* v.k throws a TypeError exactly for null and undefined
PropThrows(v) == v.t \in {"null", "undefined"}

\* v.k for the property names of Task (none of them is "length" or an index)
GetProp(v, k) ==
  IF v.t = "object"
  THEN LET i == FieldIndex(v.f, k, 1)
       IN IF i = 0 THEN Undef ELSE v.f[i].val
  ELSE Undef

\* a === b; objects and arrays compare by reference
StrictEq(a, b) ==
  /\ a.t = b.t
  /\ a.t \notin {"object", "array"}
  /\ a = b

\* ToBoolean
Truthy(v) ==
  CASE v.t = "undefined" -> FALSE
    [] v.t = "null" -> FALSE
    [] v.t = "boolean" -> v.b
    [] v.t = "number" -> v.n # 0
    [] v.t = "string" -> v.s # <<>>
    [] OTHER -> TRUE

RECURSIVE Digits(_)
\* String(n) for a non-negative integer
Digits(n) ==
  LET d == <<"0", "1", "2", "3", "4", "5", "6", "7", "8", "9">>[(n % 10) + 1]
  IN IF n < 10 THEN <<d>> ELSE Append(Digits(n \div 10), d)

\* own enumerable properties copied by {...v}
SpreadFields(v) ==
  CASE v.t = "object" -> v.f
    [] v.t = "array" -> [i \in 1..Len(v.a) |-> Fld(Digits(i - 1), v.a[i])]
    [] v.t = "string" -> [i \in 1..Len(v.s) |-> Fld(Digits(i - 1), Str(<<v.s[i]>>))]
    [] OTHER -> <<>>

-----------------------------------------------------------------------------
(* JSON text: sequences of one-character strings.  Numbers are integers   *)
(* without fraction or exponent and string escapes are the two-character  *)
(* ones; the texts and names of this model use no other form.             *)

WhiteSpace == {" ", "\n", "\t", "\r"}
DigitChars == <<"0", "1", "2", "3", "4", "5", "6", "7", "8", "9">>

\* the escape letter JSON uses for a character, "" when it is written raw
EscapeOf(c) ==
  CASE c = "\"" -> "\""
    [] c = "\\" -> "\\"
    [] c = "\n" -> "n"
    [] c = "\t" -> "t"
    [] c = "\r" -> "r"
    [] OTHER -> ""

\* the character an escape letter stands for, "" when it is no escape
UnescapeOf(e) ==
  CASE e = "\"" -> "\""
    [] e = "\\" -> "\\"
    [] e = "/" -> "/"
    [] e = "n" -> "\n"
    [] e = "t" -> "\t"
    [] e = "r" -> "\r"
    [] OTHER -> ""

RECURSIVE QuoteChars(_, _)
QuoteChars(s, i) ==
  IF i > Len(s) THEN <<>>
  ELSE (IF EscapeOf(s[i]) = "" THEN <<s[i]>> ELSE <<"\\", EscapeOf(s[i])>>)
       \o QuoteChars(s, i + 1)

\* a string as a JSON string literal
Quote(s) == <<"\"">> \o QuoteChars(s, 1) \o <<"\"">>

RECURSIVE Stringify(_)
RECURSIVE StringifyElems(_, _)
RECURSIVE StringifyFields(_, _, _)

\* array elements joined by commas; undefined is written null
StringifyElems(a, i) ==
  IF i > Len(a) THEN <<>>
  ELSE (IF i > 1 THEN <<",">> ELSE <<>>)
       \o (IF a[i].t = "undefined" THEN <<"n", "u", "l", "l">> ELSE Stringify(a[i]))
       \o StringifyElems(a, i + 1)

\* "key":value members joined by commas; undefined members are left out
StringifyFields(f, i, first) ==
  IF i > Len(f) THEN <<>>
  ELSE IF f[i].val.t = "undefined" THEN StringifyFields(f, i + 1, first)
  ELSE (IF first THEN <<>> ELSE <<",">>)
       \o Quote(f[i].k) \o <<":">> \o Stringify(f[i].val)
       \o StringifyFields(f, i + 1, FALSE)

\* JSON.stringify(v)
Stringify(v) ==
  CASE v.t = "null" -> <<"n", "u", "l", "l">>
    [] v.t = "boolean" ->
         IF v.b THEN <<"t", "r", "u", "e">> ELSE <<"f", "a", "l", "s", "e">>
    [] v.t = "number" ->
         IF v.n < 0 THEN <<"-">> \o Digits(0 - v.n) ELSE Digits(v.n)
    [] v.t = "string" -> Quote(v.s)
    [] v.t = "array" -> <<"[">> \o StringifyElems(v.a, 1) \o <<"]">>
    [] v.t = "object" -> <<"{">> \o StringifyFields(v.f, 1, TRUE) \o <<"}">>
    [] OTHER -> <<>>

\* a parse result: the value and the position after it, or a SyntaxError
ParseFail == [ok |-> FALSE, val |-> Undef, pos |-> 0]
ParseOk(v, p) == [ok |-> TRUE, val |-> v, pos |-> p]

RECURSIVE SkipWs(_, _)
SkipWs(text, i) ==
  IF i <= Len(text) /\ text[i] \in WhiteSpace THEN SkipWs(text, i + 1) ELSE i

HasAt(text, i, lit) ==
  /\ i + Len(lit) - 1 <= Len(text)
  /\ SubSeq(text, i, i + Len(lit) - 1) = lit

DigitValue(c) == CHOOSE d \in 0..9 : DigitChars[d + 1] = c
IsDigit(text, i) ==
  i <= Len(text) /\ \E d \in 1..10 : DigitChars[d] = text[i]

RECURSIVE ParseDigits(_, _, _)
\* the digits from position i on, continuing the value acc
ParseDigits(text, i, acc) ==
  IF IsDigit(text, i)
  THEN ParseDigits(text, i + 1, acc * 10 + DigitValue(text[i]))
  ELSE ParseOk(Num(acc), i)

\* an integer at position i: "0", or a non-zero digit and more digits
ParseInt(text, i) ==
  IF ~IsDigit(text, i) THEN ParseFail
  ELSE IF text[i] = "0" THEN ParseOk(Num(0), i + 1)
  ELSE ParseDigits(text, i, 0)

ParseNumber(text, i) ==
  IF text[i] = "-"
  THEN LET r == ParseInt(text, i + 1)
       IN IF r.ok THEN ParseOk(Num(0 - r.val.n), r.pos) ELSE ParseFail
  ELSE ParseInt(text, i)

RECURSIVE ParseString(_, _, _)
\* a string body from position i (after the opening quote)
ParseString(text, i, acc) ==
  IF i > Len(text) THEN ParseFail
  ELSE IF text[i] = "\"" THEN ParseOk(Str(acc), i + 1)
  ELSE IF text[i] = "\\"
  THEN IF i + 1 <= Len(text) /\ UnescapeOf(text[i + 1]) # ""
       THEN ParseString(text, i + 2, Append(acc, UnescapeOf(text[i + 1])))
       ELSE ParseFail
  ELSE IF text[i] \in {"\n", "\t", "\r"} THEN ParseFail
  ELSE ParseString(text, i + 1, Append(acc, text[i]))

RECURSIVE ParseValue(_, _)
RECURSIVE ParseElems(_, _, _)
RECURSIVE ParseMembers(_, _, _)

\* array elements from position i, after "[" or ","
ParseElems(text, i, acc) ==
  LET r == ParseValue(text, i)
      k == SkipWs(text, r.pos)
  IN IF ~r.ok \/ k > Len(text) THEN ParseFail
     ELSE IF text[k] = "," THEN ParseElems(text, k + 1, Append(acc, r.val))
     ELSE IF text[k] = "]" THEN ParseOk(Arr(Append(acc, r.val)), k + 1)
     ELSE ParseFail

\* object members from position i, after "{" or ","; a repeated key
\* keeps its first position and takes the last value
ParseMembers(text, i, acc) ==
  LET j == SkipWs(text, i)
      key == IF j <= Len(text) /\ text[j] = "\""
             THEN ParseString(text, j + 1, <<>>) ELSE ParseFail
      c == SkipWs(text, key.pos)
      r == IF key.ok /\ c <= Len(text) /\ text[c] = ":"
           THEN ParseValue(text, c + 1) ELSE ParseFail
      k == SkipWs(text, r.pos)
  IN IF ~r.ok \/ k > Len(text) THEN ParseFail
     ELSE IF text[k] = ","
     THEN ParseMembers(text, k + 1, SetField(acc, key.val.s, r.val))
     ELSE IF text[k] = "}"
     THEN ParseOk(Obj(SetField(acc, key.val.s, r.val)), k + 1)
     ELSE ParseFail

ParseValue(text, i) ==
  LET j == SkipWs(text, i)
  IN IF j > Len(text) THEN ParseFail
     ELSE CASE HasAt(text, j, <<"n", "u", "l", "l">>) -> ParseOk(Null, j + 4)
            [] HasAt(text, j, <<"t", "r", "u", "e">>) -> ParseOk(Bool(TRUE), j + 4)
            [] HasAt(text, j, <<"f", "a", "l", "s", "e">>) -> ParseOk(Bool(FALSE), j + 5)
            [] text[j] = "\"" -> ParseString(text, j + 1, <<>>)
            [] text[j] = "-" \/ IsDigit(text, j) -> ParseNumber(text, j)
            [] text[j] = "[" ->
                 LET k == SkipWs(text, j + 1)
                 IN IF k <= Len(text) /\ text[k] = "]"
                    THEN ParseOk(Arr(<<>>), k + 1)
                    ELSE ParseElems(text, j + 1, <<>>)
            [] text[j] = "{" ->
                 LET k == SkipWs(text, j + 1)
                 IN IF k <= Len(text) /\ text[k] = "}"
                    THEN ParseOk(Obj(<<>>), k + 1)
                    ELSE ParseMembers(text, j + 1, <<>>)
            [] OTHER -> ParseFail

\* JSON.parse(text): ok is FALSE when it throws a SyntaxError
JSONParse(text) ==
  LET r == ParseValue(text, 1)
  IN IF r.ok /\ SkipWs(text, r.pos) = Len(text) + 1
     THEN [ok |-> TRUE, val |-> r.val]
     ELSE [ok |-> FALSE, val |-> Undef]

-----------------------------------------------------------------------------
(* The task store *)

DefaultLength == 6
RequiredLength == 6
TIMER_SECONDS == 25 * 60

Task(id, name, isRGA) ==
  Obj(<<Fld(K_id, id), Fld(K_name, name), Fld(K_isRGA, isRGA)>>)

createDefaultTasks ==
  [i \in 1..DefaultLength |-> Task(Num(i), Str(<<>>), Bool(FALSE))]

NoItem == [present |-> FALSE, text |-> <<>>]
Item(text) == [present |-> TRUE, text |-> text]

\* loadTasks without the test of the length
loadTasks_NoLengthCheck(st, readThrows) ==
  IF readThrows THEN createDefaultTasks
  ELSE IF ~st.present \/ st.text = <<>> THEN createDefaultTasks
  ELSE LET parsed == JSONParse(st.text)
       IN IF parsed.ok /\ parsed.val.t = "array"
          THEN parsed.val.a
          ELSE createDefaultTasks

\* loadTasks() in the browser; readThrows: localStorage.getItem throws
loadTasks(st, readThrows) ==
  IF readThrows THEN createDefaultTasks
  ELSE IF ~st.present \/ st.text = <<>> THEN createDefaultTasks
  ELSE LET parsed == JSONParse(st.text)
       IN IF /\ parsed.ok
             /\ parsed.val.t = "array"
             /\ Len(parsed.val.a) = RequiredLength
          THEN parsed.val.a
          ELSE createDefaultTasks

\* a persist effect whose closure holds the collection of the render before
persist_StaleClosure(ts) == Item(Stringify(Arr(tasks)))

\* the value the persist effect writes under STORAGE_KEY
persist(ts) == Item(Stringify(Arr(ts)))

\* prev.map((t) => (t.id === id ? { ...t, name: value } : t))
handleNameChange(prev, id, value) ==
  [i \in 1..Len(prev) |->
     IF StrictEq(GetProp(prev[i], K_id), id)
     THEN Obj(SetField(SpreadFields(prev[i]), K_name, Str(value)))
     ELSE prev[i]]

\* prev.map((t) => (t.id === id ? { ...t, isRGA: !t.isRGA } : t))
toggleRGA(prev, id) ==
  [i \in 1..Len(prev) |->
     IF StrictEq(GetProp(prev[i], K_id), id)
     THEN Obj(SetField(SpreadFields(prev[i]), K_isRGA,
                       Bool(~Truthy(GetProp(prev[i], K_isRGA)))))
     ELSE prev[i]]

\* tasks.map((task) => ... task.id ...) throws on an entry without properties
RenderThrows(ts) == \E i \in 1..Len(ts) : PropThrows(ts[i])

\* const isActive = activeId === task.id
isActive(act, task) == StrictEq(act, GetProp(task, K_id))

\* the timer panel (and with it Start and Pause) is rendered for some row
PanelShown(act, ts) == \E i \in 1..Len(ts) : isActive(act, ts[i])

-----------------------------------------------------------------------------
(* The selection and timer controller *)

Timer(ref, live) == [ref |-> ref, live |-> live]

\* setInterval returns a handle that identifies no live timer
NewHandle(live) == CHOOSE h \in 1..(Cardinality(live) + 1) :
                     h \notin live /\ \A g \in 1..(h - 1) : g \in live

\* clearTimer that forgets the reference and leaves the interval live
clearTimer_NoClearInterval(tm) ==
  IF tm.ref # 0 THEN Timer(0, tm.live) ELSE tm

clearTimer(tm) ==
  IF tm.ref # 0 THEN Timer(0, tm.live \ {tm.ref}) ELSE tm

\* a timer effect that tears the interval down and never sets one up
TimerEffect_NoInterval(was, now, tm) ==
  IF was = now THEN tm ELSE clearTimer(tm)

\* a timer effect that sets the interval up and never tears it down
TimerEffect_NoTeardown(was, now, tm) ==
  IF was = now \/ ~now THEN tm
  ELSE Timer(NewHandle(tm.live), tm.live \cup {NewHandle(tm.live)})

\* the timer effect after a commit in which `running` went from was to now:
\* the previous run's cleanup, then the effect body
TimerEffect(was, now, tm) ==
  IF was = now THEN tm
  ELSE LET cleaned == IF was THEN clearTimer(tm) ELSE tm
       IN IF ~now THEN clearTimer(cleaned)
          ELSE Timer(NewHandle(cleaned.live),
                     cleaned.live \cup {NewHandle(cleaned.live)})

\* handleTaskClick without the deselecting branch
handleTaskClick_NoDeselect(act, id) ==
  [activeId |-> id, running |-> FALSE, secondsLeft |-> TIMER_SECONDS]

handleTaskClick(act, id) ==
  IF StrictEq(act, id)
  THEN [activeId |-> Null, running |-> FALSE, secondsLeft |-> TIMER_SECONDS]
  ELSE [activeId |-> id, running |-> FALSE, secondsLeft |-> TIMER_SECONDS]

\* handleStart that tests the time left with >= in place of >
handleStart_AtZero(secs, run) == IF secs >= 0 THEN TRUE ELSE run

\* handleStart without the test of the time left
handleStart_NoGuard(secs, run) == TRUE

\* the value of `running` after handleStart
handleStart(secs, run) == IF secs > 0 THEN TRUE ELSE run

\* the value of `running` after handlePause
handlePause(run) == FALSE

\* the interval callback without the expiry test
IntervalCallback_NoExpiry(prev, run, tm) ==
  [secondsLeft |-> prev - 1, running |-> run, timer |-> tm]

\* the interval callback with the expiry test off by one
IntervalCallback_OffByOne(prev, run, tm) ==
  IF prev <= 0
  THEN [secondsLeft |-> 0, running |-> FALSE, timer |-> clearTimer(tm)]
  ELSE [secondsLeft |-> prev - 1, running |-> run, timer |-> tm]

\* the interval callback: setSecondsLeft's updater and what it calls
IntervalCallback(prev, run, tm) ==
  IF prev <= 1
  THEN [secondsLeft |-> 0, running |-> FALSE, timer |-> clearTimer(tm)]
  ELSE [secondsLeft |-> prev - 1, running |-> run, timer |-> tm]

-----------------------------------------------------------------------------
(* The timer panel of the active row *)

\* a % b of JavaScript for b > 0: the sign of the result is a's
Remainder(a, b) == IF a >= 0 THEN a % b ELSE -((-a) % b)

\* a padStart that pads nothing
padStart_NoPad(str, targetLength, fill) == str

RECURSIVE padStart(_, _, _)
\* str.padStart(targetLength, fill) for a fill of one character
padStart(str, targetLength, fill) ==
  IF Len(str) >= targetLength THEN str
  ELSE padStart(<<fill>> \o str, targetLength, fill)

\* formatTime for a non-negative integer: Math.floor of the quotient by 60,
\* the remainder, String and padStart of each
formatTime(totalSeconds) ==
  LET m == totalSeconds \div 60
      s == Remainder(totalSeconds, 60)
  IN padStart(Digits(m), 2, "0") \o <<":">> \o padStart(Digits(s), 2, "0")

\* a Start button that is also disabled when no time is left
StartDisabled_AtZero(run, secs) == run \/ secs = 0

\* the Start button's disabled={running}
StartDisabled(run, secs) == run

\* the Pause button's disabled={!running}
PauseDisabled(run) == ~run

-----------------------------------------------------------------------------
(* The environment: what localStorage may hold at startup, and what the   *)
(* user types.                                                            *)

MaxRow == 2      \* the user works on rows 1..MaxRow of the six
MaxTicks == 2    \* ticks per countdown followed by Spec (TimerSpec: all)

Rows == 1..MaxRow

\* the texts the user types: empty, and one whose characters JSON escapes
NameInputs == {<<>>, <<"a", "\"", "\\", "\n">>}

\* a collection this program saved in an earlier session
SavedTasks ==
  [i \in 1..6 |-> Task(Num(i), Str(IF i = 1 THEN <<"a", "\"">> ELSE <<>>),
                       Bool(i = 2))]
\* six entries, two of them with the same id
DupIdTasks ==
  [i \in 1..6 |-> Task(Num(IF i = 2 THEN 1 ELSE i), Str(<<>>), Bool(FALSE))]
\* six entries without the isRGA property
NoFlagTasks ==
  [i \in 1..6 |-> Obj(<<Fld(K_id, Num(i)), Fld(K_name, Str(<<>>))>>)]
\* six entries, the first with "id": null
NullIdTasks ==
  [i \in 1..6 |-> Task(IF i = 1 THEN Null ELSE Num(i), Str(<<>>), Bool(FALSE))]
\* [null, null, null, null, null, null]
NullEntries == [i \in 1..6 |-> Null]

DefaultText == Stringify(Arr(createDefaultTasks))

\* texts JSON.parse rejects
InvalidTexts ==
  { <<"[">>, <<"a">>, <<"[", "1", ",", "]">>,
    SubSeq(DefaultText, 1, Len(DefaultText) - 1) }
\* JSON that is no array (one of them a string of length 6)
NonArrayTexts ==
  { Stringify(v) : v \in { Obj(<<>>), Num(6), Null, createDefaultTasks[1],
                           Str(<<"a", "a", "a", "a", "a", "a">>) } }
\* arrays of 0, 5 and 7 entries
WrongLengthTexts ==
  { Stringify(Arr(a)) :
      a \in { <<>>, SubSeq(createDefaultTasks, 1, 5),
              Append(createDefaultTasks, Task(Num(7), Str(<<>>), Bool(FALSE))) } }
\* arrays of six task-shaped entries with ids 1..6
ValidTexts == { DefaultText, Stringify(Arr(SavedTasks)) }
\* arrays of six entries that are no valid collection
SixOtherTexts ==
  { Stringify(Arr(a)) : a \in {DupIdTasks, NoFlagTasks, NullIdTasks, NullEntries} }

MalformedItems ==
  {NoItem, Item(<<>>)}
    \cup {Item(x) : x \in InvalidTexts \cup NonArrayTexts \cup WrongLengthTexts}

StorageInputs ==
  MalformedItems \cup {Item(x) : x \in ValidTexts \cup SixOtherTexts}

\* the startup contents the timer specification follows
TimerStorageInputs ==
  {NoItem} \cup {Item(Stringify(Arr(a))) : a \in {DupIdTasks, NullIdTasks}}

-----------------------------------------------------------------------------
(* Actions.  One action is one handler or callback together with the      *)
(* commit of the state it sets and the effects of that commit: React runs  *)
(* the effects of a click's render before the browser runs anything else,  *)
(* and nothing runs between the interval callback and its updater's        *)
(* result.  The handlers of the view are offered once the mount effects    *)
(* have run.  An exception that escapes a render or an effect unmounts     *)
(* the tree; the state variables then keep their last values.              *)

Op(op, arg) == [op |-> op, arg |-> arg]

\* after the first render: useState initial values, no effect run yet
InitWith(inputs) ==
  /\ storage \in inputs
  /\ tasks = createDefaultTasks
  /\ hydrated = FALSE
  /\ activeId = Null
  /\ secondsLeft = TIMER_SECONDS
  /\ running = FALSE
  /\ intervalRef = 0
  /\ intervals = {}
  /\ crashed = FALSE
  /\ lastOp = Op("init", Undef)
  /\ streak = -1

\* an exception escaped: React unmounts the tree, running the timer
\* effect's cleanup if it has one
Unmount ==
  LET tm == IF running THEN clearTimer(Timer(intervalRef, intervals))
            ELSE Timer(intervalRef, intervals)
  IN /\ crashed' = TRUE
     /\ intervalRef' = tm.ref
     /\ intervals' = tm.live

\* the mount effects: hydrate, then the render of the loaded tasks and the
\* persist effect of that render
MountWith(readThrows, writeThrows) ==
  LET loaded == loadTasks(storage, readThrows)
  IN /\ ~hydrated /\ ~crashed
     /\ lastOp' = Op("mount", [raw |-> storage, readThrows |-> readThrows])
     /\ streak' = -1
     /\ UNCHANGED <<activeId, secondsLeft, running>>
     /\ IF RenderThrows(loaded)
        THEN Unmount /\ UNCHANGED <<storage, tasks, hydrated>>
        ELSE /\ tasks' = loaded
             /\ hydrated' = TRUE
             /\ IF writeThrows
                THEN Unmount /\ UNCHANGED storage
                ELSE /\ storage' = persist(loaded)
                     /\ UNCHANGED <<intervalRef, intervals, crashed>>

Mount == \E readThrows, writeThrows \in BOOLEAN : MountWith(readThrows, writeThrows)

\* a commit of a new task collection whose persist effect does not run
CommitTasks_NoPersist(ts, writeThrows) ==
  /\ tasks' = ts
  /\ UNCHANGED <<hydrated, activeId, secondsLeft, running>>
  /\ UNCHANGED <<storage, intervalRef, intervals, crashed>>

\* a commit of a new task collection and its persist effect
CommitTasks(ts, writeThrows) ==
  /\ tasks' = ts
  /\ UNCHANGED <<hydrated, activeId, secondsLeft, running>>
  /\ IF writeThrows
     THEN Unmount /\ UNCHANGED storage
     ELSE /\ storage' = persist(ts)
          /\ UNCHANGED <<intervalRef, intervals, crashed>>

\* typing `value` into the name field of row r
NameChange(r, value, writeThrows) ==
  /\ hydrated /\ ~crashed
  /\ lastOp' = Op("name", GetProp(tasks[r], K_id))
  /\ streak' = -1
  /\ CommitTasks(handleNameChange(tasks, GetProp(tasks[r], K_id), value),
                 writeThrows)

\* tapping the flag button of row r
ToggleRGA(r, writeThrows) ==
  /\ hydrated /\ ~crashed
  /\ lastOp' = Op("toggle", GetProp(tasks[r], K_id))
  /\ streak' = -1
  /\ CommitTasks(toggleRGA(tasks, GetProp(tasks[r], K_id)), writeThrows)

\* a commit of new session state and the timer effect of that commit
CommitSession(act, secs, run, tm) ==
  LET after == TimerEffect(running, run, tm)
  IN /\ activeId' = act
     /\ secondsLeft' = secs
     /\ running' = run
     /\ intervalRef' = after.ref
     /\ intervals' = after.live
     /\ UNCHANGED <<storage, tasks, hydrated, crashed>>

\* tapping row r
Select(r) ==
  LET s == handleTaskClick(activeId, GetProp(tasks[r], K_id))
  IN /\ hydrated /\ ~crashed
     /\ lastOp' = Op("select", GetProp(tasks[r], K_id))
     /\ streak' = -1
     /\ CommitSession(s.activeId, s.secondsLeft, s.running,
                      Timer(intervalRef, intervals))

\* tapping Start: rendered in the active row's panel, disabled={running}
Start ==
  /\ hydrated /\ ~crashed
  /\ PanelShown(activeId, tasks)
  /\ ~StartDisabled(running, secondsLeft)
  /\ lastOp' = Op("start", Undef)
  /\ streak' = IF lastOp.op = "select" /\ secondsLeft > 0 THEN 0 ELSE -1
  /\ CommitSession(activeId, secondsLeft, handleStart(secondsLeft, running),
                   Timer(intervalRef, intervals))

\* tapping Pause: rendered in the active row's panel, disabled={!running}
Pause ==
  /\ hydrated /\ ~crashed
  /\ PanelShown(activeId, tasks)
  /\ ~PauseDisabled(running)
  /\ lastOp' = Op("pause", Undef)
  /\ streak' = -1
  /\ CommitSession(activeId, secondsLeft, handlePause(running),
                   Timer(intervalRef, intervals))

\* the live interval h fires
Tick(h) ==
  LET cb == IntervalCallback(secondsLeft, running, Timer(intervalRef, intervals))
  IN /\ ~crashed
     /\ h \in intervals
     /\ lastOp' = Op("tick", Undef)
     /\ streak' = IF streak >= 0 THEN streak + 1 ELSE -1
     /\ CommitSession(activeId, cb.secondsLeft, cb.running, cb.timer)

\* Tick during the first MaxTicks seconds of a countdown
EarlyTick(h) ==
  /\ secondsLeft > TIMER_SECONDS - MaxTicks
  /\ Tick(h)

Init == InitWith(StorageInputs)

Next ==
  \/ Mount
  \/ \E r \in Rows, v \in NameInputs, w \in BOOLEAN : NameChange(r, v, w)
  \/ \E r \in Rows, w \in BOOLEAN : ToggleRGA(r, w)
  \/ \E r \in Rows : Select(r)
  \/ Start
  \/ Pause
  \/ \E h \in intervals : EarlyTick(h)

\* the whole program, each countdown followed for MaxTicks seconds
Spec == Init /\ [][Next]_vars

TimerInit == InitWith(TimerStorageInputs)

TimerNext ==
  \/ Mount
  \/ \E r \in Rows : Select(r)
  \/ Start
  \/ Pause
  \/ \E h \in intervals : Tick(h)

\* selection and countdown, every second of it, without edits
TimerSpec == TimerInit /\ [][TimerNext]_vars

\* TimerSpec with a browser that keeps firing a live interval
FairTimerSpec == TimerSpec /\ WF_vars(\E h \in intervals : Tick(h))

\* typing into the name field of the first row under an expired countdown
ExpiredNameChange(value, writeThrows) ==
  /\ secondsLeft = 0
  /\ NameChange(1, value, writeThrows)

\* tapping the flag button of the first row under an expired countdown
ExpiredToggleRGA(writeThrows) ==
  /\ secondsLeft = 0
  /\ ToggleRGA(1, writeThrows)

ExpiryNext ==
  \/ TimerNext
  \/ \E v \in NameInputs, w \in BOOLEAN : ExpiredNameChange(v, w)
  \/ \E w \in BOOLEAN : ExpiredToggleRGA(w)

\* selection and countdown, with edits of the first row once the countdown
\* has expired
ExpirySpec == TimerInit /\ [][ExpiryNext]_vars

-----------------------------------------------------------------------------
(* Claims *)

\* the six default tasks, written out
SixDefaults ==
  [i \in 1..6 |->
     [t |-> "object",
      f |-> << [k |-> <<"i", "d">>, val |-> [t |-> "number", n |-> i]],
               [k |-> <<"n", "a", "m", "e">>, val |-> [t |-> "string", s |-> <<>>]],
               [k |-> <<"i", "s", "R", "G", "A">>,
                val |-> [t |-> "boolean", b |-> FALSE]] >>]]

\* a collection of six tasks with ids 1..6, string names and boolean flags
ValidCollection(ts) ==
  /\ Len(ts) = 6
  /\ \A i \in 1..6 :
       /\ ts[i].t = "object"
       /\ Len(ts[i].f) = 3
       /\ ts[i].f[1] = Fld(K_id, Num(i))
       /\ ts[i].f[2].k = K_name /\ ts[i].f[2].val.t = "string"
       /\ ts[i].f[3].k = K_isRGA /\ ts[i].f[3].val.t = "boolean"

\* the id the row r passes to its handlers
RowId(r) == GetProp(tasks[r], K_id)

\* C1: every tap on a row leaves the timer stopped at 1500 seconds; the
\* tapped id becomes the active id, except that tapping the active id
\* leaves no task active.
C1_SelectResets ==
  [][\A r \in Rows :
       Select(r) =>
         /\ running' = FALSE
         /\ secondsLeft' = 1500
         /\ activeId' = IF activeId = RowId(r) THEN Null ELSE RowId(r)]_vars

\* a tap on the active row has deselected it
C1_Witness ==
  /\ lastOp.op = "select"
  /\ lastOp.arg # Null
  /\ activeId = Null
  /\ secondsLeft = 1500
  /\ ~running

\* C2: in every state the collection has six entries with ids 1..6 in
\* ascending order.
C2_SixAscendingIds ==
  /\ Len(tasks) = 6
  /\ \A i \in 1..6 : tasks[i].t = "object" /\ GetProp(tasks[i], K_id) = Num(i)

\* C3: startup from an absent item, from text that is no JSON, no array or
\* an array of another length than six, or with a failing read, ends with
\* the six default tasks; the load itself raises nothing.
C3_MalformedLoadsDefaults ==
  [][\A rt, wt \in BOOLEAN :
       (MountWith(rt, wt) /\ (rt \/ storage \in MalformedItems)) =>
         /\ tasks' = SixDefaults
         /\ hydrated'
         /\ ~wt => ~crashed']_vars

\* startup has loaded an array of the wrong length and shows the defaults
C3_Witness ==
  /\ lastOp.op = "mount"
  /\ ~lastOp.arg.readThrows
  /\ lastOp.arg.raw.text \in WrongLengthTexts
  /\ hydrated /\ ~crashed
  /\ tasks = SixDefaults

\* C4: whenever a valid collection has been persisted, loading the storage
\* key gives back that collection, entry by entry and field by field.
C4_RoundTrip ==
  (hydrated /\ ~crashed /\ ValidCollection(tasks)) =>
    /\ storage.present
    /\ loadTasks(storage, FALSE) = tasks

\* a name holding a quote, a backslash and a line break has been persisted
C4_Witness ==
  /\ hydrated /\ ~crashed /\ ValidCollection(tasks)
  /\ lastOp.op = "name"
  /\ GetProp(tasks[2], K_name) = Str(<<"a", "\"", "\\", "\n">>)
  /\ GetProp(tasks[2], K_isRGA) = Bool(TRUE)

\* the state the Start handler and the commit after it lead to
AfterStart ==
  LET run == handleStart(secondsLeft, running)
  IN [running |-> run,
      timer |-> TimerEffect(running, run, Timer(intervalRef, intervals))]

\* C5: the Start handler changes nothing when no time is left or the timer
\* runs; a tap on Start that starts the timer comes from a stopped timer
\* of an active task with time left, and keeps the task and the time.
C5_StartGuard ==
  /\ [](((secondsLeft = 0 \/ running) /\ ~crashed) =>
          /\ AfterStart.running = running
          /\ AfterStart.timer = Timer(intervalRef, intervals))
  /\ [][Start =>
          /\ activeId' = activeId /\ secondsLeft' = secondsLeft
          /\ running' = (secondsLeft > 0)
          /\ (secondsLeft = 0) => (intervals' = intervals /\ intervalRef' = intervalRef)
          /\ running' => (PanelShown(activeId, tasks) /\ ~running /\ intervals' # {})]_vars

\* Start has been tapped with no time left, and nothing runs
C5_Witness ==
  /\ lastOp.op = "start"
  /\ secondsLeft = 0
  /\ ~running
  /\ intervals = {}
  /\ activeId # Null

\* C6: k ticks after a selection and one start, 1500 - k seconds are left;
\* the timer runs while k < 1500 and has stopped at k = 1500, where the
\* Start handler changes nothing.
C6_Countdown ==
  (streak >= 0) =>
    /\ streak <= 1500
    /\ secondsLeft = 1500 - streak
    /\ running = (streak < 1500)
    /\ (streak = 1500) =>
         /\ intervals = {}
         /\ AfterStart.running = FALSE
         /\ AfterStart.timer = Timer(intervalRef, intervals)

\* the 1500th tick of an uninterrupted countdown has fired
C6_Witness ==
  /\ streak = 1500
  /\ lastOp.op = "tick"
  /\ secondsLeft = 0
  /\ ~running

\* C7: a toggle changes neither the active id, the time left nor running,
\* and a second toggle of the same id gives back the collection.
C7_ToggleTwice ==
  [][\A r \in Rows, w \in BOOLEAN :
       ToggleRGA(r, w) =>
         /\ toggleRGA(tasks', RowId(r)) = tasks
         /\ UNCHANGED <<activeId, secondsLeft, running>>]_vars

\* C8: a name edit changes the name of the edited row and nothing else:
\* not the other rows, not the row's id or flag, not the session state;
\* an id no task has changes nothing.
C8_NameEditFrame ==
  /\ [](handleNameChange(tasks, Num(7), <<"a">>) = tasks)
  /\ [][\A r \in Rows, v \in NameInputs, w \in BOOLEAN :
          NameChange(r, v, w) =>
            /\ Len(tasks') = Len(tasks)
            /\ \A i \in 1..Len(tasks) :
                 IF i = r
                 THEN /\ GetProp(tasks'[i], K_name) = Str(v)
                      /\ GetProp(tasks'[i], K_id) = GetProp(tasks[i], K_id)
                      /\ GetProp(tasks'[i], K_isRGA) = GetProp(tasks[i], K_isRGA)
                 ELSE tasks'[i] = tasks[i]
            /\ UNCHANGED <<activeId, secondsLeft, running>>]_vars

\* C9: Pause stops the timer and its interval and keeps the time left and
\* the active id; while the timer is stopped the time left changes only
\* by a tap on a row.
C9_PauseRetains ==
  /\ [][Pause =>
          /\ running' = FALSE
          /\ intervals' = {}
          /\ secondsLeft' = secondsLeft
          /\ activeId' = activeId]_vars
  /\ [][(~running /\ secondsLeft' # secondsLeft) => \E r \in Rows : Select(r)]_vars

\* select, start, five ticks, pause: 1495 seconds are retained
C9_Witness ==
  /\ lastOp.op = "pause"
  /\ secondsLeft = 1495
  /\ ~running
  /\ activeId # Null
  /\ intervals = {}

\* C10: at most one interval is live, it is the one intervalRef holds, it
\* is live exactly while the timer runs, and no step takes more than one
\* second off the time left.
C10_OneTickSource ==
  /\ [](/\ Cardinality(intervals) <= 1
        /\ intervals = (IF intervalRef = 0 THEN {} ELSE {intervalRef})
        /\ ~crashed => (running <=> intervals # {}))
  /\ [][secondsLeft' >= secondsLeft - 1]_vars

\* the timer has been started again after a pause: one interval is live
C10_Witness ==
  /\ lastOp.op = "start"
  /\ running
  /\ secondsLeft < 1500
  /\ Cardinality(intervals) = 1

C12_PersistOrdering ==
  /\ []((hydrated /\ ~crashed) => storage = Item(Stringify(Arr(tasks))))
  /\ [][~hydrated' => storage' = storage /\ tasks' = tasks]_vars
  /\ [][hydrated => hydrated' /\ lastOp'.op # "mount"]_vars
  /\ [][(lastOp'.op = "mount" /\ hydrated') =>
          /\ lastOp'.arg.raw = storage
          /\ tasks' = loadTasks(storage, lastOp'.arg.readThrows)]_vars
  /\ [][(hydrated /\ tasks' # tasks /\ ~crashed') =>
          storage' = Item(Stringify(Arr(tasks')))]_vars

\* after the load a flag was toggled and the new collection is in storage
C12_Witness ==
  /\ lastOp.op = "toggle"
  /\ hydrated /\ ~crashed
  /\ GetProp(tasks[1], K_isRGA) = Bool(TRUE)
  /\ storage = Item(Stringify(Arr(tasks)))
  /\ JSONParse(storage.text).val.a = tasks

\* C13: no storage failure is fatal. A mount whose read or whose write
\* fails, and an edit whose write fails, end in a mounted view that has
\* not crashed: with the default tasks after a failing read, with the
\* edited collection after a failing write.
C13_StorageFailureNotFatal ==
  /\ [][\A rt, wt \in BOOLEAN :
          (/\ MountWith(rt, wt)
           /\ rt \/ wt
           /\ ~RenderThrows(loadTasks(storage, rt))) =>
            /\ ~crashed' /\ hydrated'
            /\ tasks' = loadTasks(storage, rt)
            /\ rt => tasks' = createDefaultTasks]_vars
  /\ [][\A r \in Rows, v \in NameInputs :
          NameChange(r, v, TRUE) =>
            ~crashed' /\ tasks' = handleNameChange(tasks, RowId(r), v)]_vars
  /\ [][\A r \in Rows :
          ToggleRGA(r, TRUE) =>
            ~crashed' /\ tasks' = toggleRGA(tasks, RowId(r))]_vars

\* the rows that render as active, and with the timer panel
ActiveRows == {i \in 1..Len(tasks) : isActive(activeId, tasks[i])}

\* C14: in every state at most one row is active and shows the timer
\* panel, and an active id that is not none is the id of exactly one
\* entry, whatever collection the storage held.
C14_AtMostOneActive ==
  /\ Cardinality(ActiveRows) <= 1
  /\ activeId # Null => Cardinality(ActiveRows) = 1

\* the view is mounted and some row shows the timer panel
PanelMounted == hydrated /\ ~crashed /\ PanelShown(activeId, tasks)

C16_SecondsInRange ==
  /\ secondsLeft \in 0..1500
  /\ IntervalCallback(secondsLeft, running,
                      Timer(intervalRef, intervals)).secondsLeft \in 0..1500
  /\ \A prev \in {0, 1} :
       IntervalCallback(prev, running,
                        Timer(intervalRef, intervals)).secondsLeft = 0

\* a tick has arrived with one second left and has brought the time to 0
C16_Witness ==
  /\ lastOp.op = "tick"
  /\ secondsLeft = 0
  /\ intervals = {}
  /\ streak = -1

\* C17: formatTime of the time left, which takes every value from 0 to
\* 1500, is five characters: two digits that read floor(n / 60), a colon,
\* two digits that read n mod 60. formatTime(125) is 02:05, formatTime(0)
\* is 00:00 and formatTime(1500) is 25:00.
C17_FormatTime ==
  LET text == formatTime(secondsLeft)
  IN /\ Len(text) = 5
     /\ text[3] = ":"
     /\ \A i \in {1, 2, 4, 5} : text[i] \in {DigitChars[d] : d \in 1..10}
     /\ 10 * DigitValue(text[1]) + DigitValue(text[2]) = secondsLeft \div 60
     /\ 10 * DigitValue(text[4]) + DigitValue(text[5]) = secondsLeft % 60
     /\ formatTime(125) = <<"0", "2", ":", "0", "5">>
     /\ formatTime(0) = <<"0", "0", ":", "0", "0">>
     /\ formatTime(1500) = <<"2", "5", ":", "0", "0">>

\* the panel shows 02:05
C17_Witness ==
  /\ PanelMounted
  /\ secondsLeft = 125
  /\ formatTime(secondsLeft) = <<"0", "2", ":", "0", "5">>

\* C18: expiry is sticky. The tick that brings the time left to 0 stops
\* the timer and its interval and keeps the active id. With no time left
\* the timer does not run and neither the Start nor the Pause handler
\* changes that; every step other than a tap on a row (starts, edits of
\* names and flags) keeps the time at 0, the timer stopped and the active
\* id. A tap on a row gives 1500 seconds, from which Start is accepted.
C18_ExpirySticky ==
  /\ []((secondsLeft = 0) =>
          /\ ~running
          /\ AfterStart.running = FALSE
          /\ AfterStart.timer = Timer(intervalRef, intervals)
          /\ handlePause(running) = running)
  /\ [][((\E h \in intervals : Tick(h)) /\ secondsLeft' = 0) =>
          ~running' /\ intervals' = {} /\ activeId' = activeId]_vars
  /\ [][(secondsLeft = 0) =>
          \/ secondsLeft' = 0 /\ ~running' /\ activeId' = activeId
          \/ \E r \in Rows : Select(r)]_vars
  /\ [][(secondsLeft = 0 /\ \E r \in Rows : Select(r)) =>
          /\ secondsLeft' = 1500 /\ ~running'
          /\ handleStart(secondsLeft', running') = TRUE]_vars

\* under an expired countdown a flag was toggled: still 0 and stopped
C18_Witness ==
  /\ lastOp.op = "toggle"
  /\ hydrated /\ ~crashed
  /\ secondsLeft = 0
  /\ ~running
  /\ PanelShown(activeId, tasks)

\* C19: in every state, a running timer has an active task (the active id
\* is not none) and at least one second left.
C19_RunningHasTask ==
  running => (activeId # Null /\ secondsLeft >= 1)

\* C20: the countdown cannot stall. While a live interval keeps firing, a
\* running timer eventually stops: by a pause or a tap on a row, or else
\* with no time left and its interval torn down; and a timer that stops
\* without a pause or a tap on a row has expired.
C20_CountdownEnds ==
  /\ running ~> (/\ ~running
                 /\ \/ lastOp.op \in {"pause", "select"}
                    \/ secondsLeft = 0 /\ intervals = {})
  /\ [][(running /\ ~running') =>
          \/ Pause
          \/ \E r \in Rows : Select(r)
          \/ /\ \E h \in intervals : Tick(h)
             /\ secondsLeft' = 0 /\ intervals' = {} /\ intervalRef' = 0]_vars

\* a countdown has run out: stopped at 0 with no interval and no reference
C20_Witness ==
  /\ lastOp.op = "tick"
  /\ ~running
  /\ secondsLeft = 0
  /\ intervalRef = 0
  /\ intervals = {}
  /\ ~crashed

=============================================================================
